---- MODULE Spec2Model ----
(***************************************************************************)
(* Threshold secret sharing (Shamir's scheme over GF(256)) as implemented  *)
(* by tss.py: field arithmetic, share generation, header codec, Lagrange   *)
(* interpolation and the strict / lenient reconstruction search.           *)
(*                                                                         *)
(* Byte strings are sequences of integers in 0..255.  Python lists are     *)
(* 0-based, sequences here are 1-based: EXP[i] of the source is EXP[i+1].  *)
(***************************************************************************)
EXTENDS Integers, Sequences, FiniteSets, TLC

VARIABLES
  pc,        \* "start", "shared" (share_secret has run), "done" (reconstruct_secret has run)
  args,      \* the arguments share_secret was called with
  out,       \* what share_secret produced: [err, shares]
  input,     \* the sequence of byte strings handed to reconstruct_secret
  ntamper,   \* how many bytes of the supplied shares were altered after generation
  strict_mode, \* the strict_mode argument of the reconstruct_secret call
  result,    \* what reconstruct_secret produced: [err, secret]
  fa, fb,    \* operands of a field operation
  fop,       \* the field operation applied: "none", "mul", "div"
  fres       \* its result

vars == <<pc, args, out, input, ntamper, strict_mode, result, fa, fb, fop, fres>>

Byte == 0..255

(***************************************************************************)
(* GF(256) arithmetic                                                      *)
(***************************************************************************)
EXP ==
  <<
      1,   3,   5,  15,  17,  51,  85, 255,  26,  46, 114, 150, 161, 248,  19,  53,
     95, 225,  56,  72, 216, 115, 149, 164, 247,   2,   6,  10,  30,  34, 102, 170,
    229,  52,  92, 228,  55,  89, 235,  38, 106, 190, 217, 112, 144, 171, 230,  49,
     83, 245,   4,  12,  20,  60,  68, 204,  79, 209, 104, 184, 211, 110, 178, 205,
     76, 212, 103, 169, 224,  59,  77, 215,  98, 166, 241,   8,  24,  40, 120, 136,
    131, 158, 185, 208, 107, 189, 220, 127, 129, 152, 179, 206,  73, 219, 118, 154,
    181, 196,  87, 249,  16,  48,  80, 240,  11,  29,  39, 105, 187, 214,  97, 163,
    254,  25,  43, 125, 135, 146, 173, 236,  47, 113, 147, 174, 233,  32,  96, 160,
    251,  22,  58,  78, 210, 109, 183, 194,  93, 231,  50,  86, 250,  21,  63,  65,
    195,  94, 226,  61,  71, 201,  64, 192,  91, 237,  44, 116, 156, 191, 218, 117,
    159, 186, 213, 100, 172, 239,  42, 126, 130, 157, 188, 223, 122, 142, 137, 128,
    155, 182, 193,  88, 232,  35, 101, 175, 234,  37, 111, 177, 200,  67, 197,  84,
    252,  31,  33,  99, 165, 244,   7,   9,  27,  45, 119, 153, 176, 203,  70, 202,
     69, 207,  74, 222, 121, 139, 134, 145, 168, 227,  62,  66, 198,  81, 243,  14,
     18,  54,  90, 238,  41, 123, 141, 140, 143, 138, 133, 148, 167, 242,  13,  23,
     57,  75, 221, 124, 132, 151, 162, 253,  28,  36, 108, 180, 199,  82, 246,   0
  >>

LOG ==
  <<
      0,   0,  25,   1,  50,   2,  26, 198,  75, 199,  27, 104,  51, 238, 223,   3,
    100,   4, 224,  14,  52, 141, 129, 239,  76, 113,   8, 200, 248, 105,  28, 193,
    125, 194,  29, 181, 249, 185,  39, 106,  77, 228, 166, 114, 154, 201,   9, 120,
    101,  47, 138,   5,  33,  15, 225,  36,  18, 240, 130,  69,  53, 147, 218, 142,
    150, 143, 219, 189,  54, 208, 206, 148,  19,  92, 210, 241,  64,  70, 131,  56,
    102, 221, 253,  48, 191,   6, 139,  98, 179,  37, 226, 152,  34, 136, 145,  16,
    126, 110,  72, 195, 163, 182,  30,  66,  58, 107,  40,  84, 250, 133,  61, 186,
     43, 121,  10,  21, 155, 159,  94, 202,  78, 212, 172, 229, 243, 115, 167,  87,
    175,  88, 168,  80, 244, 234, 214, 116,  79, 174, 233, 213, 231, 230, 173, 232,
     44, 215, 117, 122, 235,  22,  11, 245,  89, 203,  95, 176, 156, 169,  81, 160,
    127,  12, 246, 111,  23, 196,  73, 236, 216,  67,  31,  45, 164, 118, 123, 183,
    204, 187,  62,  90, 251,  96, 177, 134,  59,  82, 161, 108, 170,  85,  41, 157,
    151, 178, 135, 144,  97, 190, 220, 252, 188, 149, 207, 205,  55,  63,  91, 209,
     83,  57, 132,  60,  65, 162, 109,  71,  20,  42, 158,  93,  86, 242, 211, 171,
     68,  17, 146, 217,  35,  32,  46, 137, 180, 124, 184,  38, 119, 153, 227, 165,
    103,  74, 237, 222, 197,  49, 254,  24,  13,  99, 140, 128, 192, 247, 112,   7
  >>

\* a ^ b on bytes, bit by bit.
Bit(a, k) == (a \div k) % 2

gf256_add(a, b) ==
    ((Bit(a, 1) + Bit(b, 1)) % 2)
  + ((Bit(a, 2) + Bit(b, 2)) % 2) * 2
  + ((Bit(a, 4) + Bit(b, 4)) % 2) * 4
  + ((Bit(a, 8) + Bit(b, 8)) % 2) * 8
  + ((Bit(a, 16) + Bit(b, 16)) % 2) * 16
  + ((Bit(a, 32) + Bit(b, 32)) % 2) * 32
  + ((Bit(a, 64) + Bit(b, 64)) % 2) * 64
  + ((Bit(a, 128) + Bit(b, 128)) % 2) * 128

gf256_sub(a, b) == gf256_add(a, b)

gf256_mul(a, b) ==
  IF a = 0 \/ b = 0 THEN 0
  ELSE EXP[((LOG[a + 1] + LOG[b + 1]) % 255) + 1]

\* The value standing for "raise ZeroDivisionError".
ZeroDivision == -1

gf256_div(a, b) ==
  IF a = 0 THEN 0
  ELSE IF b = 0 THEN ZeroDivision
  ELSE EXP[((LOG[a + 1] - LOG[b + 1]) % 255) + 1]

(***************************************************************************)
(* Hash                                                                    *)
(***************************************************************************)
Hash_NONE == 0
Hash_SHA1 == 1
Hash_SHA256 == 2

Hash_is_valid(hash_id) == 0 <= hash_id /\ hash_id <= 2

\* Hash.to_func raises TSSError for any id other than SHA1 and SHA256.
Hash_to_func_raises(hash_id) == hash_id # 1 /\ hash_id # 2

SHA1_DIGEST_SIZE == 20
SHA256_DIGEST_SIZE == 32

digest_size(hash_id) ==
  IF hash_id = 1 THEN SHA1_DIGEST_SIZE ELSE SHA256_DIGEST_SIZE

\* hashlib's digest, abstracted: a deterministic function of the algorithm
\* and the message with the algorithm's output length, injective on the
\* messages shorter than the digest (no collisions among them).
Digest(hash_id, msg) ==
  [j \in 1..digest_size(hash_id) |->
     IF j = 1 THEN (Len(msg) + hash_id) % 256
     ELSE IF j - 1 <= Len(msg) THEN msg[j - 1]
     ELSE (7 * j + hash_id) % 256]

(***************************************************************************)
(* Share generation                                                        *)
(***************************************************************************)
\* os.urandom(n) at the call-th draw of one share_secret call: the random
\* source is one of a few byte streams, selected by seed.
urandom(seed, call, n) == [j \in 1..n |-> (seed * (call + j)) % 256]

f_raises(x) == x = 0

RECURSIVE f_loop(_, _, _, _, _)
f_loop(x, coefs_bytes, k, y, x_i) ==
  IF k > Len(coefs_bytes) THEN y
  ELSE f_loop(x, coefs_bytes, k + 1,
              gf256_add(y, gf256_mul(coefs_bytes[k], x_i)),
              gf256_mul(x_i, x))

f(x, coefs_bytes) == f_loop(x, coefs_bytes, 1, 0, 1)

MAX_SECRET_LEN == 65534
MAX_SHARES == 254

\* The parameter test without its n < m clause.
invalid_share_parameter_without_count_test(m, n, secret) ==
  Len(secret) > MAX_SECRET_LEN \/ m < 1 \/ m > MAX_SHARES \/ n > MAX_SHARES

\* The parameter test of generate_shares.
invalid_share_parameter(m, n, secret) ==
  Len(secret) > MAX_SECRET_LEN \/ m < 1 \/ m > MAX_SHARES \/ n < m \/ n > MAX_SHARES

generate_shares(m, n, secret, seed) ==
  IF invalid_share_parameter(m, n, secret)
  THEN [err |-> "InvalidParameters", shares |-> <<>>]
  ELSE IF Len(secret) > 0 /\ \E i \in 1..n : f_raises(i)
  THEN [err |-> "InvalidIndex", shares |-> <<>>]
  ELSE [err |-> "none",
        shares |-> [i \in 1..n |->
                      <<i>> \o [k \in 1..Len(secret) |->
                                  f(i, <<secret[k]>> \o urandom(seed, k, m - 1))]]]

\* struct.pack('>16sBBH'): '16s' truncates or zero-pads, 'B' and 'H' raise
\* struct.error outside 0..255 and 0..65535.
MAX_USHORT == 65535

pack_raises(hash_id, threshold, share_len) ==
  \/ hash_id < 0 \/ hash_id > 255
  \/ threshold < 0 \/ threshold > 255
  \/ share_len < 0 \/ share_len > MAX_USHORT

format_header(identifier, hash_id, threshold, share_len) ==
  [j \in 1..16 |-> IF j <= Len(identifier) THEN identifier[j] ELSE 0]
    \o <<hash_id, threshold, share_len \div 256, share_len % 256>>

format_share(header, share) == header \o share

\* share_len computed without the index byte.
header_share_len_without_index(secret) == Len(secret)

\* The share_len argument share_secret passes to format_header.
header_share_len(secret) == Len(secret) + 1

\* identifier is [present |-> BOOLEAN, bytes |-> byte string]; present =
\* FALSE is Python's None.  secret and identifier are byte strings, which
\* encode() returns unchanged.
share_secret(threshold, nshares, secret, identifier, hash_id, seed) ==
  IF ~identifier.present THEN [err |-> "InvalidParameters", shares |-> <<>>]
  ELSE IF ~Hash_is_valid(hash_id) THEN [err |-> "InvalidParameters", shares |-> <<>>]
  ELSE
    LET secret2 == IF hash_id # Hash_NONE
                   THEN secret \o Digest(hash_id, secret) ELSE secret
        g == generate_shares(threshold, nshares, secret2, seed)
    IN IF g.err # "none" THEN g
       ELSE IF pack_raises(hash_id, threshold, header_share_len(secret2))
       THEN [err |-> "struct.error", shares |-> <<>>]
       ELSE LET header == format_header(identifier.bytes, hash_id, threshold,
                                        header_share_len(secret2))
            IN [err |-> "none",
                shares |-> [i \in 1..nshares |-> format_share(header, g.shares[i])]]

(***************************************************************************)
(* Secret reconstruction                                                   *)
(***************************************************************************)
RECURSIVE basis_loop(_, _, _, _)
basis_loop(i, u, j, prod) ==
  IF j > Len(u) THEN prod
  ELSE IF i = j THEN basis_loop(i, u, j + 1, prod)
  ELSE LET d == gf256_div(u[j], gf256_add(u[j], u[i]))
       IN IF d = ZeroDivision THEN ZeroDivision
          ELSE basis_loop(i, u, j + 1, gf256_mul(prod, d))

\* basis_poly with u[i] for u[j] as the numerator of each factor.
RECURSIVE basis_loop_numerator_i(_, _, _, _)
basis_loop_numerator_i(i, u, j, prod) ==
  IF j > Len(u) THEN prod
  ELSE IF i = j THEN basis_loop_numerator_i(i, u, j + 1, prod)
  ELSE LET d == gf256_div(u[i], gf256_add(u[j], u[i]))
       IN IF d = ZeroDivision THEN ZeroDivision
          ELSE basis_loop_numerator_i(i, u, j + 1, gf256_mul(prod, d))

basis_poly_numerator_i(i, u) == basis_loop_numerator_i(i, u, 1, 1)

basis_poly(i, u) == basis_loop(i, u, 1, 1)

RECURSIVE lagrange_loop(_, _, _, _)
lagrange_loop(u, v, i, sum) ==
  IF i > Len(v) THEN sum
  ELSE LET bp == basis_poly(i, u)
       IN IF bp = ZeroDivision THEN ZeroDivision
          ELSE lagrange_loop(u, v, i + 1, gf256_add(sum, gf256_mul(bp, v[i])))

lagrange_interpolation(u, v) == lagrange_loop(u, v, 1, 0)

HEADER_LEN == 20

\* parse_header that drops the identifier field.
parse_header_without_identifier(share) ==
  <<<<>>, share[17], share[18], share[19] * 256 + share[20]>>

\* struct.unpack('>16sBBH'): (identifier, hash id, threshold, share_len).
parse_header(share) ==
  <<SubSeq(share, 1, 16), share[17], share[18], share[19] * 256 + share[20]>>

\* ref_header = None
NoHeader == <<>>

Failed(kind) == [err |-> kind, secret |-> <<>>]

\* The first loop of reconstruct_secret, from the k-th share on.
RECURSIVE parse_loop(_, _, _, _)
parse_loop(shares, k, ref_header, data_shares) ==
  IF k > Len(shares)
  THEN [err |-> "none", ref_header |-> ref_header, data_shares |-> data_shares]
  ELSE
    LET share == shares[k] IN
    IF Len(share) < HEADER_LEN
    THEN [err |-> "MalformedShare", ref_header |-> ref_header, data_shares |-> <<>>]
    ELSE
      LET header == parse_header(SubSeq(share, 1, HEADER_LEN))
          ref == IF ref_header = NoHeader THEN header ELSE ref_header
          data_share == SubSeq(share, HEADER_LEN + 1, Len(share))
      IN IF ref_header = NoHeader /\ header[3] > Len(shares)
         THEN [err |-> "InsufficientShares", ref_header |-> ref, data_shares |-> <<>>]
         ELSE IF ref # header
         THEN [err |-> "InconsistentHeaders", ref_header |-> ref, data_shares |-> <<>>]
         ELSE IF Len(data_share) # header[4]
         THEN [err |-> "MalformedShare", ref_header |-> ref, data_shares |-> <<>>]
         ELSE parse_loop(shares, k + 1, ref, Append(data_shares, data_share))

\* itertools.combinations(range(lo, n + 1), r): the r-subsets of positions
\* lo..n as increasing sequences, in lexicographic order.
RECURSIVE combinations(_, _, _)
combinations(lo, n, r) ==
  IF r = 0 THEN << <<>> >>
  ELSE IF n - lo + 1 < r THEN <<>>
  ELSE LET with == combinations(lo + 1, n, r - 1)
       IN [c \in 1..Len(with) |-> <<lo>> \o with[c]] \o combinations(lo + 1, n, r)

\* A duplicate test that compares neighbouring entries only.
has_adjacent_duplicate(u) == \E i \in 1..(Len(u) - 1) : u[i] = u[i + 1]

has_duplicate(u) == \E i, j \in 1..Len(u) : i < j /\ u[i] = u[j]

\* One pass of the body of the second loop: "next" stands for continue.
try_combination(combination, ref_header, strict) ==
  IF \E s \in 1..Len(combination) : Len(combination[s]) = 0
  THEN Failed("IndexError")
  ELSE
    LET u == [s \in 1..Len(combination) |-> combination[s][1]] IN
    IF has_duplicate(u)
    THEN (IF strict THEN Failed("DuplicateIndex") ELSE Failed("next"))
    ELSE
      LET secret == [i \in 1..(ref_header[4] - 1) |->
                       lagrange_interpolation(
                         u, [s \in 1..Len(combination) |-> combination[s][i + 1]])]
      IN IF \E i \in 1..Len(secret) : secret[i] = ZeroDivision
         THEN Failed("ZeroDivisionError")
         ELSE IF ref_header[2] = Hash_NONE
         THEN [err |-> "none", secret |-> secret]
         ELSE IF Hash_to_func_raises(ref_header[2])
         THEN Failed("InvalidHashAlgorithm")
         ELSE
           LET digestsize == digest_size(ref_header[2])
               payload == SubSeq(secret, 1, Len(secret) - digestsize)
           IN IF \/ Len(secret) < digestsize
                 \/ Digest(ref_header[2], payload)
                      # SubSeq(secret, Len(secret) - digestsize + 1, Len(secret))
              THEN (IF strict THEN Failed("HashMismatch") ELSE Failed("next"))
              ELSE [err |-> "none", secret |-> payload]

\* The second loop with strict_mode ignored: every combination is tried.
RECURSIVE search_loop_ignoring_strict(_, _, _, _, _)
search_loop_ignoring_strict(data_shares, ref_header, strict, combs, c) ==
  IF c > Len(combs) THEN Failed("ReconstructionFailed")
  ELSE
    LET r == try_combination([s \in 1..Len(combs[c]) |-> data_shares[combs[c][s]]],
                             ref_header, FALSE)
    IN IF r.err = "next"
       THEN search_loop_ignoring_strict(data_shares, ref_header, strict, combs, c + 1)
       ELSE r

\* The second loop giving up after the first combination in either mode.
search_loop_first_only(data_shares, ref_header, strict, combs, c) ==
  IF c > Len(combs) THEN Failed("ReconstructionFailed")
  ELSE
    LET r == try_combination([s \in 1..Len(combs[c]) |-> data_shares[combs[c][s]]],
                             ref_header, strict)
    IN IF r.err = "next" THEN Failed("ReconstructionFailed") ELSE r

RECURSIVE search_loop(_, _, _, _, _)
search_loop(data_shares, ref_header, strict, combs, c) ==
  IF c > Len(combs) THEN Failed("ReconstructionFailed")
  ELSE
    LET r == try_combination([s \in 1..Len(combs[c]) |-> data_shares[combs[c][s]]],
                             ref_header, strict)
    IN IF r.err = "next"
       THEN search_loop(data_shares, ref_header, strict, combs, c + 1)
       ELSE r

reconstruct_secret(shares, strict) ==
  LET p == parse_loop(shares, 1, NoHeader, <<>>) IN
  IF p.err # "none" THEN Failed(p.err)
  ELSE IF p.ref_header = NoHeader THEN Failed("TypeError")
  ELSE search_loop(p.data_shares, p.ref_header, strict,
                   combinations(1, Len(p.data_shares), p.ref_header[3]), 1)

(***************************************************************************)
(* Bounds and input sets                                                   *)
(***************************************************************************)
MaxN == 3          \* most shares generated by one share_secret call
MaxInput == 3      \* most byte strings handed to reconstruct_secret
MaxTamper == 1     \* most bytes altered in the supplied shares

Identifier(bytes) == [present |-> TRUE, bytes |-> bytes]
NoIdentifier == [present |-> FALSE, bytes |-> <<>>]
MyId == Identifier(<<109, 121, 45, 105, 100>>)   \* b'my-id'

Secrets == {<<>>, <<116>>, <<0, 255>>}
HashIds == {Hash_NONE, Hash_SHA1, Hash_SHA256}
Seeds == {0, 37}

Args(t, n, s, id, h, seed) ==
  [threshold |-> t, nshares |-> n, secret |-> s, identifier |-> id,
   hash_id |-> h, seed |-> seed]

\* Valid calls whose shares are then reconstructed.
MainArgs ==
  {Args(t, n, s, MyId, h, seed) :
     t \in 1..MaxN, n \in 1..MaxN, s \in Secrets, h \in HashIds, seed \in Seeds}

\* Calls whose shares are then altered: 1-of-2 and 2-of-3 (the shares of an
\* M-of-N call with smaller N are the first N of these).
TamperArgs ==
  {Args(tn[1], tn[2], <<116>>, MyId, h, 37) : tn \in {<<1, 2>>, <<2, 3>>}, h \in HashIds}

Zeros(len) == [k \in 1..len |-> 0]

\* Calls at and beyond every limit of the parameters, valid and invalid.
ShareArgs ==
  {Args(t, n, s, id, h, seed) :
     t \in {0, 1, 2, MaxN, 255}, n \in {0, 1, 2, MaxN, MAX_SHARES, 255},
     s \in Secrets, id \in {MyId, NoIdentifier, Identifier(Zeros(17))},
     h \in {-1, 0, 1, 2, 3}, seed \in {37}}
  \cup
  {Args(t, n, <<>>, MyId, Hash_NONE, 37) : t \in {MAX_SHARES, 255}, n \in {MAX_SHARES, 255}}
  \cup
  {Args(t, n, Zeros(len), MyId, h, 37) :
     t \in {0, 1}, n \in {1, 255}, h \in HashIds,
     len \in {MAX_SECRET_LEN - SHA256_DIGEST_SIZE, MAX_SECRET_LEN - SHA256_DIGEST_SIZE + 1,
              MAX_SECRET_LEN - SHA1_DIGEST_SIZE, MAX_SECRET_LEN - SHA1_DIGEST_SIZE + 1,
              MAX_SECRET_LEN, MAX_SECRET_LEN + 1}}

RawShare(hash_id, threshold, share_len, payload) ==
  format_header(<<>>, hash_id, threshold, share_len) \o payload

\* Byte strings that no share_secret call produced.
RawShares ==
  { <<>>,
    Zeros(19),
    RawShare(0, 0, 0, <<>>),
    RawShare(0, 1, 0, <<>>),
    RawShare(0, 1, 1, <<0>>),
    RawShare(3, 1, 2, <<1, 5>>),
    RawShare(1, 1, 1, <<1>>),
    RawShare(0, 2, 2, <<0, 9>>),
    RawShare(0, 2, 2, <<1, 7>>) }

HeaderDeltas == {1, 2}
PayloadDeltas == {1}
HeaderPositions == {1, 16, 17, 18, 19, 20}
PayloadPositions(share) == {21, 22, Len(share)} \cap (21..Len(share))

(***************************************************************************)
(* State machine                                                           *)
(***************************************************************************)
NoArgs == Args(0, 0, <<>>, NoIdentifier, 0, 0)
NoShares == [err |-> "none", shares |-> <<>>]
NoResult == [err |-> "none", secret |-> <<>>]

Init ==
  /\ pc = "start"
  /\ args = NoArgs
  /\ out = NoShares
  /\ input = <<>>
  /\ ntamper = 0
  /\ strict_mode = TRUE
  /\ result = NoResult
  /\ fa = 0 /\ fb = 0 /\ fop = "none" /\ fres = 0

\* A caller runs share_secret(threshold, nshares, secret, identifier, hash_id).
ShareSecret(a) ==
  /\ pc = "start"
  /\ args' = a
  /\ out' = share_secret(a.threshold, a.nshares, a.secret, a.identifier,
                         a.hash_id, a.seed)
  /\ pc' = "shared"
  /\ UNCHANGED <<input, ntamper, strict_mode, result, fa, fb, fop, fres>>

\* A holder hands in the i-th generated share.
Supply(i) ==
  /\ pc = "shared"
  /\ Len(input) < MaxInput
  /\ i \in 1..Len(out.shares)
  /\ input' = Append(input, out.shares[i])
  /\ UNCHANGED <<pc, args, out, ntamper, strict_mode, result, fa, fb, fop, fres>>

\* Someone hands in a byte string of their own making.
SupplyRaw(raw) ==
  /\ pc = "shared"
  /\ Len(input) < MaxInput
  /\ input' = Append(input, raw)
  /\ UNCHANGED <<pc, args, out, ntamper, strict_mode, result, fa, fb, fop, fres>>

\* One byte of the k-th supplied share is altered (xor with delta).
Tamper(k, pos, delta) ==
  /\ pc = "shared"
  /\ ntamper < MaxTamper
  /\ k \in 1..Len(input)
  /\ pos \in 1..Len(input[k])
  /\ input' = [input EXCEPT ![k][pos] = gf256_add(@, delta)]
  /\ ntamper' = ntamper + 1
  /\ UNCHANGED <<pc, args, out, strict_mode, result, fa, fb, fop, fres>>

\* Only one header byte of one share is altered.
TamperHeader(k, pos, delta) ==
  /\ ntamper = 0
  /\ Tamper(k, pos, delta)

\* A caller runs reconstruct_secret(input, strict).
Reconstruct(strict) ==
  /\ pc = "shared"
  /\ strict_mode' = strict
  /\ result' = reconstruct_secret(input, strict)
  /\ pc' = "done"
  /\ UNCHANGED <<args, out, input, ntamper, fa, fb, fop, fres>>

Next ==
  \/ \E a \in MainArgs : ShareSecret(a)
  \/ \E i \in 1..MaxN : Supply(i)
  \/ \E strict \in BOOLEAN : Reconstruct(strict)

Spec == Init /\ [][Next]_vars

NextPayload ==
  \/ \E a \in TamperArgs : ShareSecret(a)
  \/ \E i \in 1..Len(out.shares) : Supply(i)
  \/ \E k \in 1..Len(input), delta \in PayloadDeltas :
       \E pos \in PayloadPositions(input[k]) : Tamper(k, pos, delta)
  \/ \E strict \in BOOLEAN : Reconstruct(strict)

SpecPayload == Init /\ [][NextPayload]_vars

NextHeader ==
  \/ \E a \in TamperArgs : ShareSecret(a)
  \/ \E i \in 1..Len(out.shares) : Supply(i)
  \/ \E k \in 1..MaxInput, pos \in HeaderPositions, delta \in HeaderDeltas :
       TamperHeader(k, pos, delta)
  \/ \E strict \in BOOLEAN : Reconstruct(strict)

SpecHeader == Init /\ [][NextHeader]_vars

\* reconstruct_secret on arbitrary byte strings: no share_secret call precedes.
InitRaw ==
  /\ pc = "shared"
  /\ args = NoArgs
  /\ out = NoShares
  /\ input = <<>>
  /\ ntamper = 0
  /\ strict_mode = TRUE
  /\ result = NoResult
  /\ fa = 0 /\ fb = 0 /\ fop = "none" /\ fres = 0

NextRaw ==
  \/ \E raw \in RawShares : SupplyRaw(raw)
  \/ \E strict \in BOOLEAN : Reconstruct(strict)

SpecRaw == InitRaw /\ [][NextRaw]_vars

NextShare == \E a \in ShareArgs : ShareSecret(a)

SpecShare == Init /\ [][NextShare]_vars

\* The field operations on every pair of bytes.
InitField ==
  /\ pc = "start"
  /\ args = NoArgs
  /\ out = NoShares
  /\ input = <<>>
  /\ ntamper = 0
  /\ strict_mode = TRUE
  /\ result = NoResult
  /\ fa \in Byte /\ fb \in Byte /\ fop = "none" /\ fres = 0

FieldMul ==
  /\ fop = "none"
  /\ fop' = "mul"
  /\ fres' = gf256_mul(fa, fb)
  /\ UNCHANGED <<pc, args, out, input, ntamper, strict_mode, result, fa, fb>>

FieldDiv ==
  /\ fop = "none"
  /\ fop' = "div"
  /\ fres' = gf256_div(fa, fb)
  /\ UNCHANGED <<pc, args, out, input, ntamper, strict_mode, result, fa, fb>>

NextField == FieldMul \/ FieldDiv

SpecField == InitField /\ [][NextField]_vars

(***************************************************************************)
(* Vocabulary of the properties                                            *)
(***************************************************************************)
Done == pc = "done"

Returned(secret) == result.err = "none" /\ result.secret = secret

\* The shares share_secret returned.
GenuineShares == {out.shares[i] : i \in 1..Len(out.shares)}

IndexByte(share) == share[HEADER_LEN + 1]

\* The supplied shares that are not among the generated ones.
TamperedEntries == {k \in 1..Len(input) : input[k] \notin GenuineShares}

\* The positions at which two byte strings of equal length differ.
Diff(s, t) == {p \in 1..Len(s) : s[p] # t[p]}

\* Some two of the first n supplied shares carry the same index byte.
DuplicateAmongFirst(n) ==
  \E i, j \in 1..n : i < j /\ IndexByte(input[i]) = IndexByte(input[j])

\* The first loop of reconstruct_secret accepts the input (and there is one).
Validated == Len(input) >= 1 /\ parse_loop(input, 1, NoHeader, <<>>).err = "none"

\* The index bytes of the untampered supplied shares.
GoodIndices ==
  {IndexByte(input[k]) : k \in {n \in 1..Len(input) : input[n] \in GenuineShares}}

(***************************************************************************)
(* Properties                                                              *)
(***************************************************************************)

\* C1 -- Round trip: strict reconstruction from any threshold-or-more
\* pairwise distinct shares of one share_secret call, in any order (so from
\* any M of the N shares, and from all N), returns exactly the secret, for
\* every hash algorithm.
C1_RoundTrip ==
  (/\ Done /\ out.err = "none" /\ strict_mode
   /\ Len(input) >= args.threshold
   /\ \A i, j \in 1..Len(input) : i < j => input[i] # input[j])
  => Returned(args.secret)

\* Two of three SHA256 shares, handed in out of order, gave back the secret.
C1_Witness ==
  /\ Done /\ strict_mode /\ out.err = "none"
  /\ args.threshold = 2 /\ args.nshares = 3 /\ args.hash_id = Hash_SHA256
  /\ args.secret = <<0, 255>> /\ args.seed = 37
  /\ Len(input) = 2 /\ IndexByte(input[1]) = 3 /\ IndexByte(input[2]) = 1
  /\ Returned(args.secret)

\* C3 -- Threshold insufficiency (as claimed): with fewer than M shares the
\* call fails with InsufficientShares; with M or more entries but fewer than
\* M distinct indices it fails with DuplicateIndex or ReconstructionFailed;
\* it never returns a secret in either case.
C3_ThresholdInsufficiency ==
  (Done /\ out.err = "none")
  => /\ Len(input) < args.threshold => result.err = "InsufficientShares"
     /\ (/\ Len(input) >= args.threshold
         /\ Cardinality({IndexByte(input[k]) : k \in 1..Len(input)}) < args.threshold)
        => result.err \in {"DuplicateIndex", "ReconstructionFailed"}

\* The same statement for every call that is handed at least one share.
C3_NonEmpty == Len(input) >= 1 => C3_ThresholdInsufficiency

\* C5 -- Index uniqueness in strict mode (as claimed): two supplied shares
\* with the same index byte, anywhere in the input, make the strict call fail
\* with DuplicateIndex.
C5_DuplicateAnywhere ==
  (/\ Done /\ out.err = "none" /\ strict_mode
   /\ Len(input) >= args.threshold
   /\ DuplicateAmongFirst(Len(input)))
  => result.err = "DuplicateIndex"

\* C5 (amended) -- the strict call fails with DuplicateIndex exactly when two
\* of the first `threshold` shares in input order carry the same index byte.
C5_DuplicateInFirstThreshold ==
  (/\ Done /\ out.err = "none" /\ strict_mode
   /\ Len(input) >= args.threshold)
  => (result.err = "DuplicateIndex" <=> DuplicateAmongFirst(args.threshold))

\* A strict call failed on a repeated share among the first two of three.
C5_Witness ==
  /\ Done /\ strict_mode /\ out.err = "none"
  /\ args.threshold = 2 /\ Len(input) = 3
  /\ input[1] = input[2] /\ input[3] # input[1]
  /\ result.err = "DuplicateIndex"

\* C6 -- Closed error set (as claimed): whatever byte strings it is given,
\* reconstruct_secret returns a secret or fails with MalformedShare,
\* InconsistentHeaders, InsufficientShares, DuplicateIndex, HashMismatch or
\* ReconstructionFailed.
C6_ClosedErrorSet ==
  Done => result.err \in {"none", "MalformedShare", "InconsistentHeaders",
                          "InsufficientShares", "DuplicateIndex", "HashMismatch",
                          "ReconstructionFailed"}

\* C8 -- Strict-mode early exit: once the headers are validated, the strict
\* call's outcome is that of a strict call on the first `threshold` shares
\* alone; a duplicate index among them is fatal.
C8_StrictFirstCombination ==
  (Done /\ strict_mode /\ Validated)
  => LET threshold == parse_header(input[1])[3]
     IN /\ result = reconstruct_secret(SubSeq(input, 1, threshold), TRUE)
        /\ result.err # "ReconstructionFailed"
        /\ DuplicateAmongFirst(threshold) => result.err = "DuplicateIndex"

\* A strict call failed on a hash mismatch in the first combination although
\* the lenient search over the same input recovers the secret.
C8_Witness ==
  /\ Done /\ strict_mode /\ Validated
  /\ result.err = "HashMismatch"
  /\ Len(input) > args.threshold
  /\ reconstruct_secret(input, FALSE) = [err |-> "none", secret |-> args.secret]

\* What C2 is about: a lenient call, hashing enabled, at least `threshold`
\* supplied shares, all carrying the generated header.
C2_Case ==
  /\ Done /\ out.err = "none" /\ ~strict_mode
  /\ args.hash_id # Hash_NONE
  /\ Len(input) >= args.threshold
  /\ \A k \in 1..Len(input) :
       SubSeq(input[k], 1, HEADER_LEN) = SubSeq(out.shares[1], 1, HEADER_LEN)

C2_Outcome ==
  IF Cardinality(GoodIndices) >= args.threshold
  THEN Returned(args.secret)
  ELSE result.err = "ReconstructionFailed"

\* C2 -- Lenient recovery (as claimed): the secret is returned whenever M
\* untampered shares with distinct indices are present, whatever tampered
\* shares accompany them, and ReconstructionFailed is raised otherwise.
C2_LenientRecovery == C2_Case => C2_Outcome

\* At most one supplied share is tampered, and it differs from a generated
\* share in exactly one byte, which is not the index byte.
C2_OneByteAltered ==
  /\ Cardinality(TamperedEntries) <= 1
  /\ \A k \in TamperedEntries :
       \E g \in GenuineShares :
         /\ Len(g) = Len(input[k])
         /\ Cardinality(Diff(input[k], g)) = 1
         /\ \A p \in Diff(input[k], g) : p > HEADER_LEN + 1

\* C2 (amended) -- the claimed outcome, for inputs in which at most one share
\* is tampered, in a single byte after the index byte.
C2_LenientRecoveryOneByte == (C2_Case /\ C2_OneByteAltered) => C2_Outcome

\* The test's scenario: the first of three shares has one byte altered, the
\* strict call would fail on it, the lenient call returned the secret.
C2_Witness ==
  /\ C2_Case /\ C2_OneByteAltered
  /\ args.threshold = 2 /\ Len(input) = 3
  /\ TamperedEntries = {1}
  /\ reconstruct_secret(input, TRUE).err = "HashMismatch"
  /\ Returned(args.secret)

\* What C4 is about: an otherwise valid set (two or more shares, at least
\* `threshold` of them, distinct indices) in which one header byte of one
\* share was altered.
C4_Case ==
  /\ Done /\ out.err = "none"
  /\ ntamper = 1
  /\ Len(input) >= 2
  /\ Len(input) >= args.threshold
  /\ ~DuplicateAmongFirst(Len(input))

C7_Invalid ==
  \/ ~args.identifier.present
  \/ args.hash_id \notin {0, 1, 2}
  \/ args.threshold < 1 \/ args.threshold > 254
  \/ args.nshares < args.threshold \/ args.nshares > 254
  \/ Len(args.secret)
       + (IF args.hash_id = 1 THEN 20 ELSE IF args.hash_id = 2 THEN 32 ELSE 0)
     > 65534

\* C7 -- Parameter validation: share_secret fails with InvalidParameters
\* exactly on the invalid calls, returning no share; every other call
\* returns exactly nshares shares.
C7_ParameterValidation ==
  pc = "shared" =>
    /\ out.err = "InvalidParameters" <=> C7_Invalid
    /\ C7_Invalid => out.shares = <<>>
    /\ ~C7_Invalid => out.err = "none" /\ Len(out.shares) = args.nshares

\* The longest admissible secret under SHA1 was shared.
C7_Witness ==
  /\ pc = "shared" /\ out.err = "none"
  /\ args.hash_id = Hash_SHA1 /\ Len(args.secret) = 65514
  /\ Len(out.shares) = 1

\* C9 -- Shape of generated shares: N shares with one common 20-byte header
\* (threshold M, hash h, share_len = payload length); the i-th payload starts
\* with index byte i and has length 1 + len(secret) + digest length, which
\* fits the 2-byte share_len field.
C9_ShareShape ==
  (pc = "shared" /\ out.err = "none") =>
    /\ Len(out.shares) = args.nshares
    /\ \A i \in 1..Len(out.shares) :
         LET share == out.shares[i]
             payload_len == Len(share) - 20
         IN /\ SubSeq(share, 1, 20) = SubSeq(out.shares[1], 1, 20)
            /\ share[17] = args.hash_id
            /\ share[18] = args.threshold
            /\ share[19] * 256 + share[20] = payload_len
            /\ share[21] = i
            /\ payload_len = 1 + Len(args.secret)
                 + (IF args.hash_id = 1 THEN 20 ELSE IF args.hash_id = 2 THEN 32 ELSE 0)
            /\ payload_len <= 65535

\* 254 shares of a two-byte secret with a SHA256 digest were generated.
C9_Witness ==
  /\ pc = "shared" /\ out.err = "none"
  /\ args.nshares = 254 /\ args.threshold = 3
  /\ args.hash_id = Hash_SHA256 /\ args.secret = <<0, 255>>
  /\ Len(out.shares) = 254 /\ Len(out.shares[254]) = 55

\* C10 -- Field division (as claimed): DivisionByZero whenever b == 0, 0 when
\* a == 0 and b != 0, otherwise the q in 1..255 with gf256_mul(q, b) == a.
C10_FieldDivision ==
  fop = "div" =>
    /\ fb = 0 => fres = ZeroDivision
    /\ (fa = 0 /\ fb # 0) => fres = 0
    /\ (fa # 0 /\ fb # 0) => fres \in 1..255 /\ gf256_mul(fres, fb) = fa

\* The same statement for every pair of operands other than (0, 0).
C10_ExceptZeroByZero == (fa # 0 \/ fb # 0) => C10_FieldDivision
====
